---- MODULE Spec2Model ----
(***************************************************************************)
(* A model of backend/main.py: the research pipeline behind                *)
(* POST /supervisor, its SQLite cache (research_data), the two clients it  *)
(* calls (the chat-completion client and the scholarly search), the        *)
(* listing behind GET /past_queries and a restart of the server process.   *)
(*                                                                         *)
(* Text is a sequence of atoms.  An atom is a word or a single separator   *)
(* (" ", "\n", "*", ":"); the regular expressions of clean_headings, and   *)
(* str.strip / str.split, only ever cut text at atom borders, so they are  *)
(* computed on atoms exactly as the code computes them on characters.      *)
(***************************************************************************)
EXTENDS Integers, Sequences, FiniteSets, TLC

----------------------------------------------------------------------------
(* Text helpers: str.strip(), str.split("\n"), replace("*", "")            *)

\* Python's whitespace as seen by str.strip() and by \s in a regex.
IsSpace(c) == c \in {" ", "\n", "\t"}

RECURSIVE LStrip(_)
LStrip(s) ==
  IF s = <<>> THEN <<>>
  ELSE IF IsSpace(Head(s)) THEN LStrip(Tail(s)) ELSE s

RECURSIVE RStrip(_)
RStrip(s) ==
  IF s = <<>> THEN <<>>
  ELSE IF IsSpace(s[Len(s)]) THEN RStrip(SubSeq(s, 1, Len(s) - 1)) ELSE s

\* str.strip()
Strip(s) == RStrip(LStrip(s))

\* str.split("\n"): always at least one line; "" splits to [""].
RECURSIVE SplitFrom(_, _)
SplitFrom(s, line) ==
  IF s = <<>> THEN <<line>>
  ELSE IF Head(s) = "\n" THEN <<line>> \o SplitFrom(Tail(s), <<>>)
  ELSE SplitFrom(Tail(s), Append(line, Head(s)))

Split(s) == SplitFrom(s, <<>>)

\* text.replace("*", "")
RECURSIVE RemoveStars(_)
RemoveStars(s) ==
  IF s = <<>> THEN <<>>
  ELSE IF Head(s) = "*" THEN RemoveStars(Tail(s))
  ELSE <<Head(s)>> \o RemoveStars(Tail(s))

\* Case folding of re.IGNORECASE / (?i), on the words the patterns name.
LowerCase ==
  [c \in {"Multiple", "MULTIPLE"} |-> "multiple"]
  @@ [c \in {"Perspectives", "PERSPECTIVES"} |-> "perspectives"]
  @@ [c \in {"Analysis", "ANALYSIS"} |-> "analysis"]
  @@ [c \in {"Summary", "SUMMARY"} |-> "summary"]
  @@ [c \in {"Conclusion", "CONCLUSION"} |-> "conclusion"]
  @@ [c \in {"Evaluation", "EVALUATION"} |-> "evaluation"]
  @@ [c \in {"Reasoning", "REASONING"} |-> "reasoning"]
  @@ [c \in {"Hypotheses", "HYPOTHESES"} |-> "hypotheses"]
  @@ [c \in {"Key", "KEY"} |-> "key"]
  @@ [c \in {"Insights", "INSIGHTS"} |-> "insights"]
  @@ [c \in {"Recommendation", "RECOMMENDATION"} |-> "recommendation"]

Lower(c) == IF c \in DOMAIN LowerCase THEN LowerCase[c] ELSE c

----------------------------------------------------------------------------
(* clean_headings                                                          *)

\* \s* from position i: the first position that is not whitespace.
RECURSIVE SkipSpace(_, _)
SkipSpace(s, i) ==
  IF i <= Len(s) /\ IsSpace(s[i]) THEN SkipSpace(s, i + 1) ELSE i

\* A literal of the pattern at position i, case-insensitively.
MatchLit(s, i, lit) ==
  /\ i + Len(lit) - 1 <= Len(s)
  /\ \A k \in 1..Len(lit) : Lower(s[i + k - 1]) = lit[k]

\* <stars> [\s*] <words> \s* : \s*  matched at position i: the position after
\* the match, or 0 when the pattern does not match at i.
MatchLabel(s, i, stars, leadSpace, words) ==
  IF ~MatchLit(s, i, stars) THEN 0
  ELSE LET j1 == i + Len(stars)
           j2 == IF leadSpace THEN SkipSpace(s, j1) ELSE j1
       IN  IF ~MatchLit(s, j2, words) THEN 0
           ELSE LET j3 == SkipSpace(s, j2 + Len(words))
                IN  IF j3 <= Len(s) /\ s[j3] = ":"
                    THEN SkipSpace(s, j3 + 1) ELSE 0

\* re.sub(pattern, repl, text): leftmost non-overlapping matches, scanning
\* from position i; with anchored, the match must start at a line start
\* (the (?m)^ of the heading patterns).
RECURSIVE ReSub(_, _, _, _, _, _, _)
ReSub(s, i, stars, leadSpace, words, anchored, repl) ==
  IF i > Len(s) THEN <<>>
  ELSE LET atStart == ~anchored \/ i = 1 \/ s[i - 1] = "\n"
           m == IF atStart THEN MatchLabel(s, i, stars, leadSpace, words) ELSE 0
       IN  IF m # 0
           THEN repl \o ReSub(s, m, stars, leadSpace, words, anchored, repl)
           ELSE <<s[i]>> \o ReSub(s, i + 1, stars, leadSpace, words, anchored, repl)

MultiplePerspectives == <<"multiple", " ", "perspectives">>

\* remove_patterns, in the order of the list.
remove_patterns ==
  << [stars |-> <<"*", "*">>, leadSpace |-> TRUE],
     [stars |-> <<"*">>, leadSpace |-> TRUE],
     [stars |-> <<>>, leadSpace |-> FALSE] >>

RECURSIVE RemoveLabels(_, _)
RemoveLabels(s, n) ==
  IF n > Len(remove_patterns) THEN s
  ELSE RemoveLabels(
         ReSub(s, 1, remove_patterns[n].stars, remove_patterns[n].leadSpace,
               MultiplePerspectives, FALSE, <<>>),
         n + 1)

\* normalize_map, in insertion order.
normalize_map ==
  << [key |-> <<"analysis">>, proper |-> <<"Analysis">>],
     [key |-> <<"summary">>, proper |-> <<"Summary">>],
     [key |-> <<"conclusion">>, proper |-> <<"Conclusion">>],
     [key |-> <<"evaluation">>, proper |-> <<"Evaluation">>],
     [key |-> <<"reasoning">>, proper |-> <<"Reasoning">>],
     [key |-> <<"hypotheses">>, proper |-> <<"Hypotheses">>],
     [key |-> <<"key", " ", "insights">>, proper |-> <<"Key", " ", "Insights">>],
     [key |-> <<"recommendation">>, proper |-> <<"Recommendation">>] >>

RECURSIVE NormalizeHeadings(_, _)
NormalizeHeadings(s, n) ==
  IF n > Len(normalize_map) THEN s
  ELSE NormalizeHeadings(
         ReSub(s, 1, <<>>, TRUE, normalize_map[n].key, TRUE,
               normalize_map[n].proper \o <<":", " ">>),
         n + 1)

clean_headings(text) ==
  Strip(NormalizeHeadings(RemoveStars(RemoveLabels(text, 1)), 1))

----------------------------------------------------------------------------
(* Bounds of the model                                                     *)

\* LLM calls, over all requests, that fail with a caught error.
MaxFaults == 1
\* The longest result list the search provider answers with.
MaxEntries == 6

----------------------------------------------------------------------------
(* json.dumps / json.loads of the web-research list, on JSON tokens        *)

ResultKeys == <<"title", "link", "snippet">>

\* A quoted string: quote, content, quote.
Quoted(q, v) == <<q, v, q>>

RECURSIVE DumpPairs(_, _, _)
DumpPairs(q, entry, n) ==
  IF n > Len(ResultKeys) THEN <<>>
  ELSE (IF n > 1 THEN <<", ">> ELSE <<>>)
       \o Quoted(q, ResultKeys[n]) \o <<": ">> \o Quoted(q, entry[ResultKeys[n]])
       \o DumpPairs(q, entry, n + 1)

RECURSIVE DumpEntries(_, _, _)
DumpEntries(q, list, n) ==
  IF n > Len(list) THEN <<>>
  ELSE (IF n > 1 THEN <<", ">> ELSE <<>>)
       \o <<"{">> \o DumpPairs(q, list[n], 1) \o <<"}">>
       \o DumpEntries(q, list, n + 1)

\* json.dumps(web_research)
json_dumps(list) == <<"[">> \o DumpEntries("\"", list, 1) \o <<"]">>

\* str(web_results), as the f-string of the analysis prompt renders the list.
py_str(list) == <<"[">> \o DumpEntries("'", list, 1) \o <<"]">>

\* The members of an object from position i (after "{" or ", "), up to "}":
\* a set of <<key, value>> pairs and the position after "}".
RECURSIVE LoadPairs(_, _, _)
LoadPairs(toks, i, acc) ==
  LET pairs == acc \cup {<<toks[i + 1], toks[i + 5]>>}
  IN  IF toks[i + 7] = "}" THEN [pairs |-> pairs, next |-> i + 8]
      ELSE LoadPairs(toks, i + 8, pairs)

\* The dict a set of <<key, value>> pairs stands for (the keys of one object are distinct).
DictOf(pairs) ==
  [k \in {p[1] : p \in pairs} |-> (CHOOSE p \in pairs : p[1] = k)[2]]

\* The elements of an array from position i (at "{" or "]").
RECURSIVE LoadEntries(_, _)
LoadEntries(toks, i) ==
  IF toks[i] = "]" THEN <<>>
  ELSE LET obj == LoadPairs(toks, i + 1, {})
           j == IF toks[obj.next] = ", " THEN obj.next + 1 ELSE obj.next
       IN  <<DictOf(obj.pairs)>> \o LoadEntries(toks, j)

\* json.loads(row[3])
json_loads(toks) == LoadEntries(toks, 2)

----------------------------------------------------------------------------
(* fetch_web_results                                                       *)

\* The [:5] slice.
MaxResults == 5

\* item.get(key, default)
DictGet(item, key, default) == IF key \in DOMAIN item THEN item[key] ELSE default

\* The i-th entry of the provider's result list.  Entries 2 and 3 lack
\* fields, so the defaults of item.get are used.
ProviderItem(i) ==
  LET n == ToString(i)
  IN  CASE i = 2 -> [title |-> "t" \o n, link |-> "l" \o n]
        [] i = 3 -> [snippet |-> "s" \o n]
        [] OTHER -> [title |-> "t" \o n, link |-> "l" \o n, snippet |-> "s" \o n]

\* What the GET to the provider can come back with.
\*   network_error : requests.get raises (connection, timeout)
\*   http_error    : raise_for_status raises (4xx/5xx, e.g. a missing key)
\*   not_json      : response.json() raises requests' JSONDecodeError,
\*                   a RequestException
\*   json          : a decoded body
ProviderResponses ==
  {[kind |-> "network_error"], [kind |-> "http_error"]}
  \cup {[kind |-> "not_json"]}
  \cup {[kind |-> "json", body |-> [type |-> "dict", fields |-> [k \in {"error"} |-> "x"]]]}
  \cup {[kind |-> "json",
         body |-> [type |-> "dict",
                   fields |-> [k \in {"organic_results"} |->
                                 [type |-> "list", of |-> "dict",
                                  items |-> [i \in 1..n |-> ProviderItem(i)]]]]]
          : n \in {0, MaxEntries}}
  \cup {[kind |-> "json",
         body |-> [type |-> "dict",
                   fields |-> [k \in {"organic_results"} |-> [type |-> t, of |-> o, items |-> <<>>]]]]
          : <<t, o>> \in {<<"null", "none">>, <<"list", "str">>}}
  \cup {[kind |-> "json", body |-> [type |-> "null", fields |-> <<>>]]}

Returned(v) == [raised |-> FALSE, value |-> v]
Raised(e) == [raised |-> TRUE, value |-> <<e>>]

FormatResult(item) ==
  [title |-> DictGet(item, "title", "No Title"),
   link |-> DictGet(item, "link", "No Link"),
   snippet |-> DictGet(item, "snippet", "No Description Available")]

\* The try block of fetch_web_results on a decoded body.
FormatResults(results) ==
  IF results.type # "dict" THEN Raised("TypeError")
  ELSE IF "organic_results" \notin DOMAIN results.fields THEN Returned(<<>>)
  ELSE LET organic == results.fields["organic_results"]
       IN  IF organic.type # "list" THEN Raised("TypeError")
           ELSE IF organic.of # "dict" THEN Raised("AttributeError")
           ELSE LET n == IF Len(organic.items) < MaxResults
                         THEN Len(organic.items) ELSE MaxResults
                IN  Returned([i \in 1..n |-> FormatResult(organic.items[i])])

\* except requests.exceptions.RequestException: return []
fetch_web_results(resp) ==
  CASE resp.kind \in {"network_error", "http_error", "not_json"} -> Returned(<<>>)
    [] resp.kind = "json" -> FormatResults(resp.body)

----------------------------------------------------------------------------
(* fetch_ai_response                                                       *)

NoneValue == "None"
\* os.getenv("HF_TOKEN"): absent, empty or a token.
TokenValues == {NoneValue, "", "hf_token"}

FailPrefix == "AI Request failed: "
NoTokenReason == "HF_TOKEN is not set in environment variables"

Stages == <<"hypotheses", "analysis", "reasoning", "evaluation", "summary", "conclusion">>

\* What the model answers at each stage, before clean_headings.
RawReply(stage) ==
  CASE stage = "hypotheses" ->
         <<"*", "*", "Hypotheses", " ", ":", "*", "*", "\n", "h1", "\n", "h2">>
    [] stage = "analysis" ->
         <<"Multiple", " ", "Perspectives", ":", " ", "a1", "\n", "\n",
           "analysis", ":", "a2">>
    [] stage = "reasoning" -> <<"r1">>
    [] stage = "evaluation" -> <<"*", "e1", "*", "\n">>
    [] stage = "summary" -> <<"summary", ":", " ", " ", "s1">>
    [] stage = "conclusion" -> <<"c1", "\n", "c2", " ">>

\* The way the remote call fails at each stage, when it does.
\*   call_raises  : chat.completions.create raises
\*   no_choices   : completion.choices is empty
\*   content_none : message.content is None, so clean_headings raises
FaultAt(stage) ==
  CASE stage \in {"hypotheses", "evaluation"} -> "call_raises"
    [] stage \in {"analysis", "summary"} -> "no_choices"
    [] stage \in {"reasoning", "conclusion"} -> "content_none"

\* What one use of the client can come to: OpenAI(...) raises, the call
\* fails inside the try block, or a reply comes back.
LlmOutcomes(stage) ==
  {[kind |-> "construct_raises", raw |-> <<>>],
   [kind |-> FaultAt(stage), raw |-> <<>>],
   [kind |-> "ok", raw |-> RawReply(stage)]}

\* str(e) of the exception the try block catches.
Reason(kind) ==
  CASE kind = "call_raises" -> "Connection error."
    [] kind = "no_choices" -> "list index out of range"
    [] kind = "content_none" -> "expected string or bytes-like object"

IsFault(outcome) == outcome.kind \in {"call_raises", "no_choices", "content_none"}

\* The result of fetch_ai_response and whether a request went out.
Answer(raised, value, sent) == [raised |-> raised, value |-> value, sent |-> sent]

\* cleaned = clean_headings(raw_text), tabulated over the replies.
cleaned ==
  [raw_text \in {RawReply(Stages[i]) : i \in 1..Len(Stages)} |->
     clean_headings(raw_text)]

\* The try block: the remote call, the extraction and clean_headings.
TryCompletion(outcome) ==
  IF outcome.kind = "ok"
  THEN Answer(FALSE, cleaned[outcome.raw], TRUE)
  ELSE Answer(FALSE, <<FailPrefix, Reason(outcome.kind)>>, TRUE)

\* fetch_ai_response with the guard written "if HF_TOKEN is None": an empty
\* token passes it.
fetch_ai_response_none_only(token, outcome) ==
  IF token = NoneValue
  THEN Answer(FALSE, <<FailPrefix, NoTokenReason>>, FALSE)
  ELSE IF outcome.kind = "construct_raises"
       THEN Answer(TRUE, <<"OpenAIError">>, FALSE)
       ELSE TryCompletion(outcome)

fetch_ai_response(token, outcome) ==
  IF token \in {NoneValue, ""}
  THEN Answer(FALSE, <<FailPrefix, NoTokenReason>>, FALSE)
  ELSE IF outcome.kind = "construct_raises"
       THEN Answer(TRUE, <<"OpenAIError">>, FALSE)
       ELSE TryCompletion(outcome)

----------------------------------------------------------------------------
(* The research_data table: store_in_db, get_from_db                       *)

\* SameTask under COLLATE NOCASE: letter case is ignored.
SameTaskNoCase(a, b) ==
  /\ Len(a) = Len(b)
  /\ \A i \in 1..Len(a) :
       (IF a[i] = "Q" THEN "q" ELSE a[i]) = (IF b[i] = "Q" THEN "q" ELSE b[i])

\* task = ? and the UNIQUE constraint compare TEXT under SQLite's default
\* BINARY collation: two tasks are the same key when they are the same text.
SameTask(a, b) == a = b

\* The positions of the rows a task conflicts with / a SELECT finds.
Matching(table, task) == {i \in 1..Len(table) : SameTask(table[i].task, task)}

\* web_research_json = json.dumps(web_research), tabulated over the lists
\* fetch_web_results returns.
web_research_json ==
  [web_research \in
     {a.value : a \in {x \in {fetch_web_results(resp) : resp \in ProviderResponses} :
                          ~x.raised}} |->
     json_dumps(web_research)]

\* The parameters of the INSERT: the eight values bound to the statement.
InsertValues(l) ==
  [task |-> l.task,
   hypotheses |-> l.hypothesis_response,
   web_research |-> web_research_json[l.web_results],
   analysis |-> l.analysis_response,
   reasoning |-> l.reasoning_response,
   evaluation |-> l.evaluation_response,
   summary |-> l.summary_response,
   conclusion |-> l.conclusion_response]

\* INSERT of a new row: id is the AUTOINCREMENT key.
InsertRow(table, v) ==
  Append(table,
         [id |-> Len(table) + 1, task |-> v.task, hypotheses |-> v.hypotheses,
          web_research |-> v.web_research, analysis |-> v.analysis,
          reasoning |-> v.reasoning, evaluation |-> v.evaluation,
          summary |-> v.summary, conclusion |-> v.conclusion])

\* UpdateRow with web_research missing from the SET list.
UpdateRowKeepsWebResearch(row, v) ==
  [row EXCEPT !.hypotheses = v.hypotheses,
              !.analysis = v.analysis, !.reasoning = v.reasoning,
              !.evaluation = v.evaluation, !.summary = v.summary,
              !.conclusion = v.conclusion]

\* ON CONFLICT(task) DO UPDATE SET ...: the seven columns of the row in
\* conflict take the excluded values; id and task stay.
UpdateRow(row, v) ==
  [row EXCEPT !.hypotheses = v.hypotheses, !.web_research = v.web_research,
              !.analysis = v.analysis, !.reasoning = v.reasoning,
              !.evaluation = v.evaluation, !.summary = v.summary,
              !.conclusion = v.conclusion]

\* store_in_db as INSERT OR IGNORE: a task already stored keeps its old row.
store_in_db_or_ignore(table, l) ==
  LET v == InsertValues(l)
  IN  IF Matching(table, v.task) = {} THEN InsertRow(table, v) ELSE table

\* store_in_db: one statement and one commit, so the table goes from the
\* old content to the new in one step.
store_in_db(table, l) ==
  LET v == InsertValues(l)
      hit == Matching(table, v.task)
  IN  IF hit = {} THEN InsertRow(table, v)
      ELSE [i \in 1..Len(table) |->
              IF i \in hit THEN UpdateRow(table[i], v) ELSE table[i]]

\* RowToDict with the stored web_research text returned undecoded, as if
\* json.loads were left out.
RowToDictUndecoded(row) ==
  ("Task" :> row.task)
  @@ ("Generated Hypotheses" :> Split(row.hypotheses))
  @@ ("Web Research" :> row.web_research)
  @@ ("Analysis" :> Split(row.analysis))
  @@ ("Reasoning" :> Split(row.reasoning))
  @@ ("Evaluation" :> Split(row.evaluation))
  @@ ("Summary" :> Split(row.summary))
  @@ ("Conclusion" :> Split(row.conclusion))

\* The response dict, as get_from_db builds it from a row.
RowToDict(row) ==
  ("Task" :> row.task)
  @@ ("Generated Hypotheses" :> Split(row.hypotheses))
  @@ ("Web Research" :> json_loads(row.web_research))
  @@ ("Analysis" :> Split(row.analysis))
  @@ ("Reasoning" :> Split(row.reasoning))
  @@ ("Evaluation" :> Split(row.evaluation))
  @@ ("Summary" :> Split(row.summary))
  @@ ("Conclusion" :> Split(row.conclusion))

\* get_from_db with a WHERE clause that matches no row: every lookup misses.
get_from_db_never_matches(table, task) == [found |-> FALSE, value |-> <<>>]

\* get_from_db that passes over a row holding a failure string or an empty
\* result list, as a cache that only serves records of clean runs would.
get_from_db_clean_only(table, task) ==
  LET hit == {i \in Matching(table, task) :
                /\ table[i].web_research # <<"[", "]">>
                /\ \A c \in {"hypotheses", "analysis", "reasoning", "evaluation",
                             "summary", "conclusion"} :
                     table[i][c][1] # FailPrefix}
  IN  IF hit = {} THEN [found |-> FALSE, value |-> <<>>]
      ELSE [found |-> TRUE,
            value |-> RowToDict(table[CHOOSE i \in hit : \A j \in hit : i <= j])]

\* get_from_db: fetchone() of the SELECT, or None.
get_from_db(table, task) ==
  LET hit == Matching(table, task)
  IN  IF hit = {} THEN [found |-> FALSE, value |-> <<>>]
      ELSE [found |-> TRUE,
            value |-> RowToDict(table[CHOOSE i \in hit : \A j \in hit : i <= j])]

----------------------------------------------------------------------------
(* supervisor_agent                                                        *)

\* The requests the host handles, possibly at the same time; they are
\* received in the order of their numbers.
Requests == {1, 2}

\* The "task" values a request body carries.
TaskTexts == {<<>>, <<" ", "\n">>, <<"q">>, <<" ", "q">>, <<"Q">>}

\* request.json: a body without "task", or with one.
Bodies == {<<>>} \cup {[task |-> t] : t \in TaskTexts}

\* The locals of one run of supervisor_agent, before any is assigned.
NoLocals ==
  [task |-> <<>>, hypothesis_response |-> <<>>, web_results |-> <<>>,
   analysis_response |-> <<>>, reasoning_response |-> <<>>,
   evaluation_response |-> <<>>, summary_response |-> <<>>,
   conclusion_response |-> <<>>]

\* TaskOf without the strip().
TaskOfUnstripped(data) == DictGet(data, "task", <<>>)

\* task = data.get("task", "").strip()
TaskOf(data) == Strip(DictGet(data, "task", <<>>))

\* formatted_response
formatted_response(l) ==
  ("Task" :> l.task)
  @@ ("Generated Hypotheses" :> Split(l.hypothesis_response))
  @@ ("Web Research" :> l.web_results)
  @@ ("Analysis" :> Split(l.analysis_response))
  @@ ("Reasoning" :> Split(l.reasoning_response))
  @@ ("Evaluation" :> Split(l.evaluation_response))
  @@ ("Summary" :> Split(l.summary_response))
  @@ ("Conclusion" :> Split(l.conclusion_response))

hypothesis_prompt(l) == <<"Generate possible hypotheses based on: ">> \o l.task

analysis_prompt(l) ==
  <<"Analyze the following hypotheses and web research:\n", "Hypotheses:\n">>
  \o l.hypothesis_response \o <<"\n\nWeb Research:\n">> \o py_str(l.web_results)

reasoning_prompt(l) ==
  <<"Provide logical reasoning based on this analysis:\n">> \o l.analysis_response

evaluation_prompt(l) ==
  <<"Evaluate different perspectives based on the reasoning:\n">>
  \o l.reasoning_response

summary_prompt(l) ==
  <<"Summarize key insights from evaluation:\n">> \o l.evaluation_response

conclusion_prompt(l) ==
  <<"Based on the summary, provide a structured conclusion:\n">>
  \o l.summary_response

VARIABLES
  HF_TOKEN,   \* the module-level credential, read once at import
  rows,       \* the research_data table, in rowid order
  pc,         \* where each request's handler stands
  body,       \* request.json of each request
  local,      \* the handler's local variables
  status,     \* the HTTP status returned (0: none yet)
  response,   \* the body returned
  prompt,     \* the prompt of the handler's latest fetch_ai_response call
  calls,      \* the calls each handler has made, in order
  writes,     \* the requests whose store_in_db committed, in commit order
  listing,    \* the answer of the latest GET /past_queries (at start: none, shown as the empty list)
  text,       \* a text handed to clean_headings on its own
  normalized, \* what clean_headings made of text, applied once, twice, ...
  seen        \* history: the requests in flight when each request came in,
              \* and the number of commits made for its task, and the
              \* credential in force, when it checked the cache

vars ==
  <<HF_TOKEN, rows, pc, body, local, status, response, prompt, calls, writes,
    listing, text, normalized, seen>>

\* One entry of calls: the function called and whether a request went out
\* to a remote service.
Call(fn, sent) == [fn |-> fn, sent |-> sent]

\* LLM outputs, over all runs, that are a caught failure of the remote call.
FaultCount ==
  Cardinality({<<r, f>> \in Requests \X
                 {"hypothesis_response", "analysis_response", "reasoning_response",
                  "evaluation_response", "summary_response", "conclusion_response"} :
               /\ Len(local[r][f]) = 2
               /\ local[r][f][1] = FailPrefix
               /\ local[r][f][2] # NoTokenReason})

Init ==
  /\ HF_TOKEN \in TokenValues
  /\ rows = <<>>
  /\ pc = [r \in Requests |-> "idle"]
  /\ body = [r \in Requests |-> <<>>]
  /\ local = [r \in Requests |-> NoLocals]
  /\ status = [r \in Requests |-> 0]
  /\ response = [r \in Requests |-> <<>>]
  /\ prompt = [r \in Requests |-> <<>>]
  /\ calls = [r \in Requests |-> <<>>]
  /\ writes = <<>>
  /\ listing = [past_queries |-> <<>>]
  /\ text = <<>>
  /\ normalized = <<>>
  /\ seen = [r \in Requests |-> [in_flight |-> {}, commits |-> 0, token |-> NoneValue]]

\* An exception leaves the handler: Flask answers 500.
Abort(r, error) ==
  /\ pc' = [pc EXCEPT ![r] = "done"]
  /\ status' = [status EXCEPT ![r] = 500]
  /\ response' = [response EXCEPT ![r] = [exception |-> error]]

\* data = request.json; task = data.get("task", "").strip(); the 400 return.
Receive(r) ==
  /\ pc[r] = "idle"
  /\ \A earlier \in 1..(r - 1) : pc[earlier] # "idle"
  /\ \E data \in Bodies :
       LET task == TaskOf(data)
       IN  /\ body' = [body EXCEPT ![r] = data]
           /\ IF task = <<>>
              THEN /\ pc' = [pc EXCEPT ![r] = "done"]
                   /\ status' = [status EXCEPT ![r] = 400]
                   /\ response' = [response EXCEPT ![r] =
                                     [error |-> "Missing task parameter"]]
                   /\ UNCHANGED local
              ELSE /\ pc' = [pc EXCEPT ![r] = "cache_check"]
                   /\ local' = [local EXCEPT ![r].task = task]
                   /\ UNCHANGED <<status, response>>
  /\ seen' = [seen EXCEPT ![r].in_flight =
                {other \in Requests : pc[other] \notin {"idle", "done"}}]
  /\ UNCHANGED <<text, normalized, listing, HF_TOKEN, rows, prompt, calls, writes>>

\* CacheCheck behind a single-flight guard: while another handler is running
\* the pipeline for the same task, the request is turned away with 409.
CacheCheckSingleFlight(r) ==
  /\ pc[r] = "cache_check"
  /\ LET stored_result == get_from_db(rows, local[r].task)
         busy == \E other \in Requests \ {r} :
                   /\ local[other].task = local[r].task
                   /\ pc[other] \notin {"idle", "cache_check", "respond", "done"}
     IN  /\ calls' = [calls EXCEPT ![r] =
                        Append(@, Call("get_from_db", FALSE))]
         /\ IF stored_result.found
            THEN /\ pc' = [pc EXCEPT ![r] = "done"]
                 /\ status' = [status EXCEPT ![r] = 200]
                 /\ response' = [response EXCEPT ![r] = stored_result.value]
            ELSE IF busy
            THEN /\ pc' = [pc EXCEPT ![r] = "done"]
                 /\ status' = [status EXCEPT ![r] = 409]
                 /\ response' = [response EXCEPT ![r] = [error |-> "in progress"]]
            ELSE /\ pc' = [pc EXCEPT ![r] = "hypotheses"]
                 /\ UNCHANGED <<status, response>>
  /\ seen' = [seen EXCEPT
                ![r].commits =
                   Cardinality({k \in 1..Len(writes) :
                                  local[writes[k]].task = local[r].task}),
                ![r].token = HF_TOKEN]
  /\ UNCHANGED <<text, normalized, listing, HF_TOKEN, rows, body, local, prompt,
                 writes>>

\* stored_result = get_from_db(task); if stored_result: return it.
CacheCheck(r) ==
  /\ pc[r] = "cache_check"
  /\ LET stored_result == get_from_db(rows, local[r].task)
     IN  /\ calls' = [calls EXCEPT ![r] =
                        Append(@, Call("get_from_db", FALSE))]
         /\ IF stored_result.found
            THEN /\ pc' = [pc EXCEPT ![r] = "done"]
                 /\ status' = [status EXCEPT ![r] = 200]
                 /\ response' = [response EXCEPT ![r] = stored_result.value]
            ELSE /\ pc' = [pc EXCEPT ![r] = "hypotheses"]
                 /\ UNCHANGED <<status, response>>
  /\ seen' = [seen EXCEPT
                ![r].commits =
                   Cardinality({k \in 1..Len(writes) :
                                  local[writes[k]].task = local[r].task}),
                ![r].token = HF_TOKEN]
  /\ UNCHANGED <<text, normalized, listing, HF_TOKEN, rows, body, local, prompt, writes>>

\* One stage that is a call of fetch_ai_response(prompt): its result goes to
\* the local named field and the handler moves on to next.
LlmStage(r, stage, stage_prompt, field, next) ==
  /\ pc[r] = stage
  /\ prompt' = [prompt EXCEPT ![r] = stage_prompt]
  /\ \E outcome \in LlmOutcomes(stage) :
       /\ IsFault(outcome) => FaultCount < MaxFaults
       /\ \E a \in {fetch_ai_response(HF_TOKEN, outcome)} :
              /\ calls' = [calls EXCEPT ![r] =
                             Append(@, Call("fetch_ai_response", a.sent))]
              /\ IF a.raised
                 THEN /\ Abort(r, a.value[1])
                      /\ UNCHANGED local
                 ELSE /\ local' = [local EXCEPT ![r][field] = a.value]
                      /\ pc' = [pc EXCEPT ![r] = next]
                      /\ UNCHANGED <<status, response>>
  /\ UNCHANGED <<seen, text, normalized, listing, HF_TOKEN, rows, body, writes>>

\* Step 1
Hypothesize(r) ==
  LlmStage(r, "hypotheses", hypothesis_prompt(local[r]), "hypothesis_response",
           "web_research")

\* Step 2
WebResearch(r) ==
  /\ pc[r] = "web_research"
  /\ \E resp \in ProviderResponses :
       \E a \in {fetch_web_results(resp)} :
           /\ calls' = [calls EXCEPT ![r] =
                          Append(@, Call("fetch_web_results", TRUE))]
           /\ IF a.raised
              THEN /\ Abort(r, a.value[1])
                   /\ UNCHANGED local
              ELSE /\ local' = [local EXCEPT ![r].web_results = a.value]
                   /\ pc' = [pc EXCEPT ![r] = "analysis"]
                   /\ UNCHANGED <<status, response>>
  /\ UNCHANGED <<seen, text, normalized, listing, HF_TOKEN, rows, body, prompt, writes>>

\* Step 3
Analyze(r) ==
  LlmStage(r, "analysis", analysis_prompt(local[r]), "analysis_response", "reasoning")

\* Step 4
Reason_(r) ==
  LlmStage(r, "reasoning", reasoning_prompt(local[r]), "reasoning_response",
           "evaluation")

\* Step 5
Evaluate(r) ==
  LlmStage(r, "evaluation", evaluation_prompt(local[r]), "evaluation_response",
           "summary")

\* Step 6
Summarize(r) ==
  LlmStage(r, "summary", summary_prompt(local[r]), "summary_response", "conclusion")

\* Step 7
Conclude(r) ==
  LlmStage(r, "conclusion", conclusion_prompt(local[r]), "conclusion_response",
           "store")

\* AtStore with the store_in_db call moved up, before Step 7.
AtStoreBeforeConclusion(r) == pc[r] \in {"conclusion", "store"}

\* The handler is at its store_in_db call: all seven stages are behind it.
AtStore(r) == pc[r] = "store"

\* Store in Database
Persist(r) ==
  /\ AtStore(r)
  /\ rows' = store_in_db(rows, local[r])
  /\ writes' = Append(writes, r)
  /\ calls' = [calls EXCEPT ![r] = Append(@, Call("store_in_db", FALSE))]
  /\ pc' = [pc EXCEPT ![r] = "respond"]
  /\ UNCHANGED <<seen, text, normalized, listing, HF_TOKEN, body, local, status, response, prompt>>

\* Respond with the body read back from the table instead of the locals.
RespondFromStore(r) ==
  /\ pc[r] = "respond"
  /\ pc' = [pc EXCEPT ![r] = "done"]
  /\ status' = [status EXCEPT ![r] = 200]
  /\ response' = [response EXCEPT ![r] = get_from_db(rows, local[r].task).value]
  /\ UNCHANGED <<seen, text, normalized, listing, HF_TOKEN, rows, body, local, prompt,
                 calls, writes>>

\* return jsonify(formatted_response)
Respond(r) ==
  /\ pc[r] = "respond"
  /\ pc' = [pc EXCEPT ![r] = "done"]
  /\ status' = [status EXCEPT ![r] = 200]
  /\ response' = [response EXCEPT ![r] = formatted_response(local[r])]
  /\ UNCHANGED <<seen, text, normalized, listing, HF_TOKEN, rows, body, local, prompt, calls, writes>>

\* The orders in which SELECT task FROM research_data can return the rows:
\* the statement has no ORDER BY, so the scan may follow the rowids or the
\* index of the UNIQUE column.
ScanOrders(table) ==
  {order \in [1..Len(table) -> 1..Len(table)] :
     \A i, j \in 1..Len(table) : order[i] = order[j] => i = j}

\* PastQueries with LIMIT 1 on the SELECT.
PastQueriesLimitOne(table, order) ==
  [i \in 1..(IF Len(table) > 1 THEN 1 ELSE Len(table)) |-> table[order[i]].task]

\* past_queries = [row[0] for row in rows] if rows else []
PastQueries(table, order) == [i \in 1..Len(table) |-> table[order[i]].task]

\* GetPastQueries as a handler that also empties the table.
GetPastQueriesPurging ==
  /\ \E order \in ScanOrders(rows) :
       listing' = [past_queries |-> PastQueries(rows, order)]
  /\ rows' = <<>>
  /\ UNCHANGED <<seen, text, normalized, HF_TOKEN, pc, body, local, status, response,
                 prompt, calls, writes>>

\* GET /past_queries
GetPastQueries ==
  /\ \E order \in ScanOrders(rows) :
       listing' = [past_queries |-> PastQueries(rows, order)]
  /\ UNCHANGED <<seen, text, normalized, HF_TOKEN, rows, pc, body, local, status,
                 response, prompt, calls, writes>>

\* The server process is stopped and started again between two requests,
\* with another HF_TOKEN in its environment: the module is imported anew,
\* load_dotenv and os.getenv read the credential, and init_db finds the
\* table of the database file as it was left (CREATE TABLE IF NOT EXISTS).
\* No request is in flight at that moment and at least one is still to come.
Restart ==
  /\ \A r \in Requests : pc[r] \in {"idle", "done"}
  /\ \E r \in Requests : pc[r] = "idle"
  /\ HF_TOKEN' \in TokenValues \ {HF_TOKEN}
  /\ UNCHANGED <<seen, text, normalized, listing, rows, pc, body, local, status,
                 response, prompt, calls, writes>>

Next ==
  \/ Restart
  \/ GetPastQueries
  \/ \E r \in Requests : Receive(r)
  \/ \E r \in Requests : CacheCheck(r)
  \/ \E r \in Requests : Hypothesize(r)
  \/ \E r \in Requests : WebResearch(r)
  \/ \E r \in Requests : Analyze(r)
  \/ \E r \in Requests : Reason_(r)
  \/ \E r \in Requests : Evaluate(r)
  \/ \E r \in Requests : Summarize(r)
  \/ \E r \in Requests : Conclude(r)
  \/ \E r \in Requests : Persist(r)
  \/ \E r \in Requests : Respond(r)

Spec == Init /\ [][Next]_vars

----------------------------------------------------------------------------
(* clean_headings on its own, over all short texts                         *)

\* The longest text, in atoms, and the number of times clean_headings is
\* applied to it in a row.
MaxLen == 5
MaxPasses == 2

\* The atoms the texts are made of: the words of the removed phrase, a
\* heading keyword, a plain word and the separators.
Atoms == {"Multiple", "Perspectives", "analysis", "k", " ", "\n", ":", "*"}

Texts == UNION {[1..n -> Atoms] : n \in 0..MaxLen}

\* The server is idle and a text is handed to clean_headings.
InitNormalize ==
  /\ text \in Texts
  /\ normalized = <<>>
  /\ HF_TOKEN = NoneValue
  /\ rows = <<>>
  /\ pc = [r \in Requests |-> "idle"]
  /\ body = [r \in Requests |-> <<>>]
  /\ local = [r \in Requests |-> NoLocals]
  /\ status = [r \in Requests |-> 0]
  /\ response = [r \in Requests |-> <<>>]
  /\ prompt = [r \in Requests |-> <<>>]
  /\ calls = [r \in Requests |-> <<>>]
  /\ writes = <<>>
  /\ listing = [past_queries |-> <<>>]
  /\ seen = [r \in Requests |-> [in_flight |-> {}, commits |-> 0, token |-> NoneValue]]

\* clean_headings applied to the text, then to its own result.
Normalize ==
  /\ Len(normalized) < MaxPasses
  /\ normalized' =
       Append(normalized,
              clean_headings(IF normalized = <<>> THEN text
                             ELSE normalized[Len(normalized)]))
  /\ UNCHANGED <<text, HF_TOKEN, rows, pc, body, local, status, response, prompt,
                 calls, writes, listing, seen>>

NextNormalize == Normalize

SpecNormalize == InitNormalize /\ [][NextNormalize]_vars

----------------------------------------------------------------------------
(* Properties                                                              *)

\* The functions request r has called, in order.
Fns(r) == [i \in 1..Len(calls[r]) |-> calls[r][i].fn]

\* How often request r has called fn.
Count(r, fn) == Cardinality({i \in 1..Len(calls[r]) : calls[r][i].fn = fn})

\* Request r was answered from the cache: it returned 200 after get_from_db
\* and nothing else.
Hit(r) == pc[r] = "done" /\ status[r] = 200 /\ Fns(r) = <<"get_from_db">>

\* The commits for a task, as positions of writes, and the latest of them.
WritesOf(task) == {k \in 1..Len(writes) : local[writes[k]].task = task}
LastWriter(task) ==
  writes[CHOOSE k \in WritesOf(task) : \A j \in WritesOf(task) : j <= k]

\* The seven non-key columns.
DerivedColumns ==
  {"hypotheses", "web_research", "analysis", "reasoning", "evaluation",
   "summary", "conclusion"}

\* Row row holds, in all seven columns, the values run w passed to store_in_db.
HoldsRunOf(row, w) ==
  /\ row.task = local[w].task
  /\ \E v \in {InsertValues(local[w])} : \A c \in DerivedColumns : row[c] = v[c]

\* C1: a request handled after a request for the same task has persisted its
\* record is answered from the cache: it returns 200 with exactly what the
\* run that last stored the task returns (the same Task, the same six line
\* sequences, the same web-research list), it has called neither
\* fetch_ai_response nor fetch_web_results, and the table is as it was.
C1_SecondCallServedFromCache ==
  [][\A r \in Requests :
       (pc[r] = "cache_check" /\ pc'[r] # pc[r] /\ WritesOf(local[r].task) # {}) =>
         /\ pc'[r] = "done"
         /\ status'[r] = 200
         /\ response'[r] = formatted_response(local[LastWriter(local[r].task)])
         /\ Count(r, "fetch_ai_response")' = 0
         /\ Count(r, "fetch_web_results")' = 0
         /\ \A c \in 1..Len(calls'[r]) : ~calls'[r][c].sent
         /\ rows' = rows]_vars

\* C1 happens: request 1 ran the pipeline and returned a multi-line report
\* with five search results, and request 2 was then answered from the cache
\* with the same content.
C1_Witness ==
  /\ status[1] = 200 /\ writes = <<1>>
  /\ Hit(2)
  /\ response[2] = response[1]
  /\ Len(response[2]["Web Research"]) = MaxResults
  /\ Len(response[2]["Generated Hypotheses"]) > 1

\* C2: the table never holds two rows with the same task, every task that
\* was put has a row, and that row carries in all seven non-key columns the
\* values of the most recent put for the task.
C2_UpsertOneRowLatestValues ==
  /\ \A i, j \in 1..Len(rows) : rows[i].task = rows[j].task => i = j
  /\ \A k \in 1..Len(writes) :
       \E i \in 1..Len(rows) :
         HoldsRunOf(rows[i], LastWriter(local[writes[k]].task))
  /\ \A i \in 1..Len(rows) : WritesOf(rows[i].task) # {}

\* C2 happens: two puts for one task with different values left one row.
C2_Witness ==
  /\ Len(writes) = 2
  /\ local[writes[1]].task = local[writes[2]].task
  /\ InsertValues(local[writes[1]]) # InsertValues(local[writes[2]])
  /\ Len(rows) = 1

\* The task a body carries is missing, empty or blank.
BlankTask(data) ==
  \/ "task" \notin DOMAIN data
  \/ \A i \in 1..Len(data.task) : IsSpace(data.task[i])

\* C3, as claimed: a request whose task passed validation always ends with
\* 200, after a cache hit or after its own store_in_db; no failure of an
\* external call ends it otherwise.
C3_ValidRequestAlwaysPersistsAndReturns200 ==
  \A r \in Requests :
    (pc[r] = "done" /\ ~BlankTask(body[r])) =>
       /\ status[r] = 200
       /\ Hit(r) \/ Count(r, "store_in_db") = 1

\* C4: a request whose task is missing, empty or blank is answered 400 with
\* an error field, at once and without any call: no cache read, no cache
\* write, no LLM call, no search call; and the step leaves the table as it
\* was.
C4_BlankTaskRejectedUntouched ==
  /\ [](\A r \in Requests :
          (pc[r] # "idle" /\ BlankTask(body[r])) =>
             /\ pc[r] = "done"
             /\ status[r] = 400
             /\ DOMAIN response[r] = {"error"}
             /\ calls[r] = <<>>
             /\ \A k \in 1..Len(writes) : writes[k] # r)
  /\ [][\A r \in Requests :
          (pc[r] = "idle" /\ pc'[r] # "idle" /\ BlankTask(body'[r])) =>
             /\ rows' = rows
             /\ writes' = writes]_vars

\* C4 happens: a task of whitespace only was rejected while the table held
\* a record.
C4_Witness ==
  /\ Len(rows) = 1
  /\ \E r \in Requests :
       /\ pc[r] = "done" /\ status[r] = 400
       /\ "task" \in DOMAIN body[r] /\ body[r].task # <<>>

\* The locals that hold the output of an LLM stage.
LlmFields ==
  {"hypothesis_response", "analysis_response", "reasoning_response",
   "evaluation_response", "summary_response", "conclusion_response"}

\* The last function request r called is fn.
LastCall(r, fn) == calls[r] # <<>> /\ calls[r][Len(calls[r])].fn = fn

\* C5, as claimed: fetch_ai_response never raises, whatever client
\* construction, the remote call, the extraction and the normalization come
\* to: no handler is ended by an exception out of it, and every output that
\* is not a normalized reply is a string that begins "AI Request failed: ".
C5_LlmClientNeverRaises ==
  \A r \in Requests :
    /\ ~(status[r] = 500 /\ LastCall(r, "fetch_ai_response"))
    /\ \A f \in LlmFields :
         \/ local[r][f] = <<>>
         \/ \E raw \in DOMAIN cleaned : local[r][f] = cleaned[raw]
         \/ local[r][f][1] = "AI Request failed: "

\* C6: with no credential configured (HF_TOKEN absent or empty in the
\* server process that handles the request) every call of
\* fetch_ai_response returns "AI Request failed: HF_TOKEN is not set in
\* environment variables" and sends nothing to the remote service; the
\* handler is not ended by it, and a run that gets to store_in_db has that
\* string in all six stage outputs.
C6_NoCredentialFailsInBandPerCall ==
  LET message == <<"AI Request failed: ", "HF_TOKEN is not set in environment variables">>
  IN  \A r \in Requests :
        (calls[r] # <<>> /\ seen[r].token \in {NoneValue, ""}) =>
          /\ \A i \in 1..Len(calls[r]) :
               calls[r][i].fn = "fetch_ai_response" => ~calls[r][i].sent
          /\ \A f \in LlmFields : local[r][f] \in {<<>>, message}
          /\ Cardinality({f \in LlmFields : local[r][f] = message})
               = Count(r, "fetch_ai_response")
          /\ ~(status[r] = 500 /\ LastCall(r, "fetch_ai_response"))
          /\ Count(r, "store_in_db") = 1 =>
               \A f \in LlmFields : local[r][f] = message

\* C6 happens: with an empty HF_TOKEN a request ran the whole pipeline, was
\* answered 200 and stored the failure string six times.
C6_Witness ==
  \E r \in Requests :
       /\ seen[r].token = ""
       /\ status[r] = 200 /\ Count(r, "store_in_db") = 1
       /\ Count(r, "fetch_ai_response") = 6
       /\ response[r]["Conclusion"] =
            <<(<<"AI Request failed: ", "HF_TOKEN is not set in environment variables">>)>>

\* C7, as claimed: fetch_web_results never raises and returns 0 to 5
\* {title, link, snippet} entries, also when the body cannot be decoded or
\* the results field has an unexpected shape: no handler is ended by an
\* exception out of it.
C7_SearchClientNeverRaises ==
  \A r \in Requests :
    /\ ~(status[r] = 500 /\ LastCall(r, "fetch_web_results"))
    /\ Len(local[r].web_results) <= 5
    /\ \A i \in 1..Len(local[r].web_results) :
         DOMAIN local[r].web_results[i] = {"title", "link", "snippet"}

\* The calls of a run that got through all seven stages and stored.
FullRun ==
  <<"get_from_db", "fetch_ai_response", "fetch_web_results", "fetch_ai_response",
    "fetch_ai_response", "fetch_ai_response", "fetch_ai_response",
    "fetch_ai_response", "store_in_db">>

\* C8: every row has all seven derived columns populated, with the outputs
\* of one run that went through all seven stages before it wrote: a handler
\* that called store_in_db had made, in order, the cache check, the
\* hypotheses call, the search and the five further LLM calls, and a handler
\* ended by an exception wrote nothing.
C8_RowsAreWholeRunsOnly ==
  /\ \A i \in 1..Len(rows) :
       /\ \A c \in DerivedColumns : rows[i][c] # <<>>
       /\ \E w \in Requests : Count(w, "store_in_db") = 1 /\ HoldsRunOf(rows[i], w)
  /\ \A r \in Requests :
       /\ Count(r, "store_in_db") > 0 => Fns(r) = FullRun
       /\ (\E k \in 1..Len(writes) : writes[k] = r) <=> Count(r, "store_in_db") = 1
       /\ status[r] = 500 => Count(r, "store_in_db") = 0

\* C8 happens: one run stored its record while another, for the same task,
\* was ended by an exception after its first stage and left no trace in the
\* table.
C8_Witness ==
  /\ Len(rows) = 1
  /\ \E r \in Requests :
       /\ status[r] = 500 /\ Count(r, "fetch_ai_response") >= 1
       /\ local[r].task = rows[1].task
       /\ ~HoldsRunOf(rows[1], r)

\* C9: at every moment the row of a task is, in all seven columns, the
\* complete record of one run, the run that committed last for the task,
\* and a request answered from the cache got the complete record of one run
\* that had committed for its task: never a mix of two runs.
C9_RowIsLastWritersWholeRecord ==
  /\ \A i \in 1..Len(rows) : HoldsRunOf(rows[i], LastWriter(rows[i].task))
  /\ \A r \in Requests :
       Hit(r) => \E k \in WritesOf(local[r].task) :
                   response[r] = formatted_response(local[writes[k]])

\* C9 happens: two overlapping requests for one task both missed the cache
\* and both committed; their records differ in web_research and in an LLM
\* column, and the row is the second writer's.
C9_Witness ==
  /\ Len(writes) = 2 /\ Len(rows) = 1
  /\ local[writes[1]].task = local[writes[2]].task
  /\ local[writes[1]].web_results # local[writes[2]].web_results
  /\ \E f \in LlmFields : local[writes[1]][f] # local[writes[2]][f]
  /\ HoldsRunOf(rows[1], writes[2])

\* Request r carries a task that passed validation.
Typed(r) == pc[r] # "idle" /\ ~BlankTask(body[r])

\* Request served was answered from the cache with the record of run owner.
ServedFrom(served, owner) ==
  /\ Hit(served)
  /\ \E k \in 1..Len(writes) : writes[k] = owner
  /\ response[served] = formatted_response(local[owner])

\* C10, as claimed: the key is the task text exactly as typed, so two
\* requests whose task strings differ in any character, be it only leading
\* or trailing whitespace or letter case, are never served from one
\* another's record.
C10_KeyIsTextAsTyped ==
  \A r1, r2 \in Requests :
    (r1 # r2 /\ Typed(r1) /\ Typed(r2) /\ body[r1].task # body[r2].task)
      => ~ServedFrom(r2, r1)

\* C10, amended: the key is the task text with leading and trailing
\* whitespace stripped, compared exactly (letter case counts).  Two requests
\* whose stripped texts differ are never served from one another's record, a
\* request answered from the cache gets the record of its own stripped text,
\* and the table holds one row per stripped text that was stored, so
\* requests that differ only in leading or trailing whitespace share a row.
C10_KeyIsStrippedText ==
  /\ \A r1, r2 \in Requests :
       (r1 # r2 /\ Typed(r1) /\ Typed(r2)
          /\ Strip(body[r1].task) # Strip(body[r2].task))
         => ~ServedFrom(r2, r1)
  /\ \A r \in Requests : Hit(r) => response[r]["Task"] = Strip(body[r].task)
  /\ \A k \in 1..Len(writes) :
       Cardinality({i \in 1..Len(rows) : rows[i].task = Strip(body[writes[k]].task)}) = 1
  /\ Len(rows) = Cardinality({Strip(body[writes[k]].task) : k \in 1..Len(writes)})

\* C10 happens: a request for " q" stored its record and a request for "q"
\* was answered from it.
C10_Witness ==
  \E r1, r2 \in Requests :
    /\ Typed(r1) /\ Typed(r2)
    /\ body[r1].task # body[r2].task
    /\ ServedFrom(r2, r1)

\* The task strings that have a row.
Tasks(table) == {table[i].task : i \in 1..Len(table)}

\* C11: no step removes a record: over every step the set of stored task
\* strings only grows and no row goes away.  The table is changed only by the
\* store_in_db step of a run that has gone through the whole pipeline, and
\* that step is a commit of that run.  A step that answers from the cache, a
\* step that rejects with 400 and a GET /past_queries leave the table as it
\* was.
C11_StoreOnlyGrowsOnlyPersistWrites ==
  [][/\ Tasks(rows) \subseteq Tasks(rows')
     /\ Len(rows) <= Len(rows')
     /\ rows' # rows =>
          \E r \in Requests :
            /\ pc[r] = "store" /\ pc'[r] = "respond"
            /\ Fns(r)' = FullRun
            /\ writes' = Append(writes, r)
     /\ \A r \in Requests :
          /\ (pc[r] = "cache_check" /\ pc'[r] = "done") => rows' = rows
          /\ (status[r] = 0 /\ status'[r] = 400) => rows' = rows
     /\ listing' # listing => rows' = rows]_vars

\* C11 happens: with one record stored, a request was answered from the
\* cache, the other request of the run was the writer, and GET /past_queries
\* was served; the record is still there.
C11_Witness ==
  /\ Len(rows) = 1 /\ Len(writes) = 1
  /\ \E r \in Requests : Hit(r)
  /\ listing.past_queries = <<rows[1].task>>

\* Sequence seq lists every member of set exactly once and nothing else.
ListsOnce(seq, set) ==
  /\ {seq[i] : i \in 1..Len(seq)} = set
  /\ \A i, j \in 1..Len(seq) : seq[i] = seq[j] => i = j

\* C12, as claimed: GET /past_queries returns exactly the stored task
\* strings, each once, and every task string that a POST /supervisor request
\* carried and that was answered 200 is in the result.
C12_ListingHasEveryAnsweredTaskAsTyped ==
  \A order \in ScanOrders(rows) :
    /\ ListsOnce(PastQueries(rows, order), Tasks(rows))
    /\ \A r \in Requests :
         status[r] = 200 =>
           \E i \in 1..Len(rows) : PastQueries(rows, order)[i] = body[r].task

\* C12, amended: whatever order the scan takes, GET /past_queries returns
\* exactly the task strings that have a row, each exactly once, and every
\* answer it has given was such a listing of the table of its moment.  For
\* every POST /supervisor request answered 200 the result holds the task
\* with leading and trailing whitespace stripped, which is the text the
\* record is stored under, not the text as the caller typed it.
C12_ListingIsStoredTasksOnce ==
  /\ [](\A order \in ScanOrders(rows) :
          /\ ListsOnce(PastQueries(rows, order), Tasks(rows))
          /\ \A r \in Requests :
               status[r] = 200 =>
                 \E i \in 1..Len(rows) :
                   PastQueries(rows, order)[i] = Strip(body[r].task))
  /\ [][listing' # listing =>
          ListsOnce(listing'.past_queries, Tasks(rows))]_vars

\* C12 happens: two tasks are stored, both requests were answered 200, one
\* of them typed with a leading blank, and GET /past_queries lists the two
\* stored texts.
C12_Witness ==
  /\ Len(rows) = 2
  /\ \A r \in Requests : status[r] = 200
  /\ \E r \in Requests : body[r].task # Strip(body[r].task)
  /\ Len(listing.past_queries) = 2
  /\ ListsOnce(listing.past_queries, Tasks(rows))

\* C13, as claimed: clean_headings is idempotent: applied to its own result
\* it returns that result, for every text, also when removing the phrase
\* "Multiple Perspectives:" or the asterisks brings the phrase or a heading
\* together again.
C13_CleanHeadingsIdempotent ==
  Len(normalized) >= 2 => normalized[2] = normalized[1]

\* Text p contains text x as a contiguous part.
Embeds(p, x) == \E i \in 1..(Len(p) - Len(x) + 1) : SubSeq(p, i, i + Len(x) - 1) = x

\* What the prompt of a stage has to carry: the outputs of the stage before.
Carried(l, stage) ==
  CASE stage = "hypotheses" -> {l.task}
    [] stage = "analysis" -> {l.hypothesis_response, py_str(l.web_results)}
    [] stage = "reasoning" -> {l.analysis_response}
    [] stage = "evaluation" -> {l.reasoning_response}
    [] stage = "summary" -> {l.evaluation_response}
    [] stage = "conclusion" -> {l.summary_response}

\* Request r went past the cache check without a hit and its handler is over.
MissedAndOver(r) == pc[r] = "done" /\ Len(calls[r]) > 1

\* The calls of every handler are, at every moment, the first so many of
\* FullRun: nothing out of order, nothing twice, nothing left out between two.
InPipelineOrder == \A r \in Requests : Fns(r) = SubSeq(FullRun, 1, Len(calls[r]))

\* Every step is one call of one handler, added after all it has made, and
\* the prompt of an LLM call carries the outputs of the stage before it.
OneCallAtATimeWithCarriedPrompt ==
  \A r \in Requests :
    calls'[r] # calls[r] =>
      /\ \E c \in {Call(fn, sent) :
                     fn \in {FullRun[i] : i \in 1..Len(FullRun)}, sent \in BOOLEAN} :
           calls'[r] = Append(calls[r], c)
      /\ \A other \in Requests \ {r} : calls'[other] = calls[other]
      /\ LastCall(r, "fetch_ai_response")' =>
           /\ pc[r] \in {Stages[i] : i \in 1..Len(Stages)}
           /\ \A x \in Carried(local[r], pc[r]) : Embeds(prompt'[r], x)

\* C14, as claimed: a request that misses the cache makes its calls in the
\* order hypotheses, search, analysis, reasoning, evaluation, summary,
\* conclusion, store_in_db and then responds: six LLM calls and one search,
\* one at a time, each LLM prompt carrying the output of the stage before
\* (the analysis prompt the hypotheses and the search results).
C14_MissMakesSevenCallsInOrder ==
  /\ [](/\ InPipelineOrder
        /\ \A r \in Requests :
             MissedAndOver(r) =>
               /\ Fns(r) = FullRun
               /\ Count(r, "fetch_ai_response") = 6
               /\ Count(r, "fetch_web_results") = 1
               /\ status[r] = 200)
  /\ [][OneCallAtATimeWithCarriedPrompt]_vars

\* C14, for what the code does keep: the order, the one-at-a-time rule and
\* the carried prompts hold on every run, and a run that responds 200 after a
\* miss has made all of FullRun; a run ended by an exception (C5, C7) has
\* made the first calls of that order and no more.
C14_CallsInOrderUpToAbort ==
  /\ [](/\ InPipelineOrder
        /\ \A r \in Requests :
             (MissedAndOver(r) /\ status[r] = 200) =>
               /\ Fns(r) = FullRun
               /\ Count(r, "fetch_ai_response") = 6
               /\ Count(r, "fetch_web_results") = 1)
  /\ [][OneCallAtATimeWithCarriedPrompt]_vars

\* The column and the response key that carry each LLM output.
ColumnOf ==
  [hypothesis_response |-> "hypotheses", analysis_response |-> "analysis",
   reasoning_response |-> "reasoning", evaluation_response |-> "evaluation",
   summary_response |-> "summary", conclusion_response |-> "conclusion"]

KeyOf ==
  [hypothesis_response |-> "Generated Hypotheses", analysis_response |-> "Analysis",
   reasoning_response |-> "Reasoning", evaluation_response |-> "Evaluation",
   summary_response |-> "Summary", conclusion_response |-> "Conclusion"]

\* Value v is a failure string of fetch_ai_response.
IsFailure(v) == Len(v) = 2 /\ v[1] = FailPrefix

\* A step in which a stage of request r gets a failure string for its output
\* takes the handler on to the stage after it, and the call is not made again.
FailedStageGoesOn ==
  \A r \in Requests : \A f \in LlmFields :
    (local[r][f] = <<>> /\ IsFailure(local'[r][f])) =>
      /\ pc'[r] \notin {pc[r], "done"}
      /\ Len(calls'[r]) = Len(calls[r]) + 1

\* The prompt of an LLM call carries every failure string among the outputs
\* of the stage before it, whole.
FailureIsCarried ==
  \A r \in Requests :
    (calls'[r] # calls[r] /\ LastCall(r, "fetch_ai_response")') =>
      \A x \in Carried(local[r], pc[r]) : IsFailure(x) => Embeds(prompt'[r], x)

\* store_in_db writes a failure string to its column and the response
\* returns it as the one line of its section, as any other output.
FailureIsStoredAndReturned ==
  \A r \in Requests : \A f \in LlmFields :
    IsFailure(local[r][f]) =>
      /\ (pc[r] = "store" /\ pc'[r] = "respond") =>
           \E i \in 1..Len(rows') :
             rows'[i].task = local[r].task /\ rows'[i][ColumnOf[f]] = local[r][f]
      /\ (pc[r] = "respond" /\ pc'[r] = "done") =>
           /\ status'[r] = 200
           /\ response'[r][KeyOf[f]] = <<local[r][f]>>

\* C15, as claimed: whenever the LLM call of a stage fails, the handler goes
\* on: the call is not made again, the next stage is invoked with a prompt
\* that carries the failure string, and the failure string is stored and
\* returned for that stage as a successful output would be.  No failure of
\* fetch_ai_response ends the handler.
C15_FailedStagePropagates ==
  /\ [](/\ InPipelineOrder
        /\ \A r \in Requests : ~(status[r] = 500 /\ LastCall(r, "fetch_ai_response")))
  /\ [][FailedStageGoesOn /\ FailureIsCarried /\ FailureIsStoredAndReturned]_vars

\* C15, for what the code does keep: every failure that fetch_ai_response
\* reports as a string (a missing credential, or an error the try block
\* catches) goes on as content: no retry, carried in the next prompt, stored
\* and returned.  A failure it raises (C5) ends the handler instead.
C15_ReportedFailurePropagates ==
  /\ []InPipelineOrder
  /\ [][FailedStageGoesOn /\ FailureIsCarried /\ FailureIsStoredAndReturned]_vars

\* A reported failure that went all the way: a run whose analysis call
\* failed with a caught error, with a token set, stored and returned the
\* failure string while the other five outputs are replies.
C15_ReportedFailureHappens ==
  \E r \in Requests :
    /\ seen[r].token = "hf_token" /\ status[r] = 200 /\ Count(r, "store_in_db") = 1
    /\ IsFailure(local[r].analysis_response)
    /\ Embeds(prompt[r], local[r].summary_response)
    /\ response[r]["Analysis"] = <<local[r].analysis_response>>
    /\ \E i \in 1..Len(rows) : rows[i].analysis = local[r].analysis_response

\* Request r ran the whole pipeline: the cache check missed, six LLM calls
\* and one search were made, and store_in_db committed.
RanPipeline(r) ==
  /\ Fns(r) = FullRun
  /\ Count(r, "fetch_ai_response") = 6
  /\ Count(r, "fetch_web_results") = 1
  /\ \E k \in 1..Len(writes) : writes[k] = r

\* C16: nothing makes a request wait for, or share, a run in flight for the
\* same task.  A cache check made while no run has committed for the task
\* misses and starts a pipeline of its own, whatever the other request is
\* doing; and when two requests for one task have both written, each of them
\* ran the whole pipeline (six LLM calls and one search each) and the table
\* holds one record for the task.
C16_NoSingleFlight ==
  /\ [](\A r1, r2 \in Requests :
          (/\ r1 # r2 /\ local[r1].task = local[r2].task
           /\ Count(r1, "store_in_db") = 1 /\ Count(r2, "store_in_db") = 1) =>
             /\ RanPipeline(r1) /\ RanPipeline(r2)
             /\ {r1, r2} \subseteq {writes[k] : k \in WritesOf(local[r1].task)}
             /\ Cardinality(Matching(rows, local[r1].task)) = 1)
  /\ [][\A r \in Requests :
          (/\ pc[r] = "cache_check" /\ pc'[r] # pc[r]
           /\ WritesOf(local[r].task) = {}) =>
             pc'[r] = "hypotheses"]_vars

\* C16 happens: two requests for the same task, not stored before, both
\* missed the cache check, both ran the whole pipeline, both wrote and both
\* were answered 200; the table holds one record.
C16_Witness ==
  /\ local[1].task = local[2].task
  /\ RanPipeline(1) /\ RanPipeline(2)
  /\ status[1] = 200 /\ status[2] = 200
  /\ Len(writes) = 2
  /\ Len(rows) = 1

\* The position in writes of the first commit for a task.
FirstWrite(task) == CHOOSE k \in WritesOf(task) : \A j \in WritesOf(task) : k <= j

\* Request r checked the cache before the first commit for its task.
CheckedBeforeFirstWrite(r) == calls[r] # <<>> /\ seen[r].commits = 0

\* No request came in while another was being handled.
OneAtATime == \A r \in Requests : seen[r].in_flight = {}

\* C17: every commit for a task, the first and any that overwrites, is by a
\* request that checked the cache before the first commit for the task, and
\* a step that changes a stored row is the store_in_db of such a request.
\* So the commits for a task are at most as many as the requests for it that
\* checked the cache before its first commit; and when no request comes in
\* while another is handled, a task is committed once and no step changes a
\* row that exists.
C17_OverwriteOnlyByEarlyChecker ==
  /\ [](/\ \A k \in 1..Len(writes) : CheckedBeforeFirstWrite(writes[k])
        /\ \A k \in 1..Len(writes) :
             Cardinality(WritesOf(local[writes[k]].task)) <=
               Cardinality({r \in Requests :
                              /\ local[r].task = local[writes[k]].task
                              /\ CheckedBeforeFirstWrite(r)})
        /\ OneAtATime =>
             \A k \in 1..Len(writes) :
               Cardinality(WritesOf(local[writes[k]].task)) = 1)
  /\ [][\A i \in 1..Len(rows) :
          rows'[i] # rows[i] =>
            /\ ~OneAtATime
            /\ \E r \in Requests :
                 /\ pc[r] = "store" /\ pc'[r] = "respond"
                 /\ local[r].task = rows[i].task
                 /\ CheckedBeforeFirstWrite(r)]_vars

\* C17 happens: a request that checked the cache before the first commit
\* for its task, while the first writer was in flight, committed second and
\* changed the stored row.
C17_Witness ==
  /\ Len(writes) = 2 /\ Len(rows) = 1
  /\ seen[writes[2]].commits = 0
  /\ seen[2].in_flight = {1}
  /\ ~HoldsRunOf(rows[1], writes[1])
  /\ HoldsRunOf(rows[1], writes[2])

\* Row row holds failure content: an LLM column is a failure string, or the
\* web research is the empty list.
Tainted(row) ==
  \/ \E f \in LlmFields : IsFailure(row[ColumnOf[f]])
  \/ row.web_research = json_dumps(<<>>)

\* C18: a record with failure content is served like any other, for good.
\* A cache check that finds such a record for its task returns it with 200,
\* calls neither fetch_ai_response nor fetch_web_results and leaves the
\* table alone, whatever the credential is by then; the handler calls nothing
\* after it; and such a row is only ever changed by the store_in_db of a run
\* that had checked the cache before the first commit for the task (C17),
\* never by a request that came later.  With requests handled one at a time
\* every request answered from the cache got the first run's record.
C18_FailureRecordServedForGood ==
  /\ [][\A r \in Requests :
          /\ \A i \in 1..Len(rows) :
               (/\ pc[r] = "cache_check" /\ pc'[r] # pc[r]
                /\ rows[i].task = local[r].task /\ Tainted(rows[i])) =>
                  /\ pc'[r] = "done" /\ status'[r] = 200
                  /\ response'[r] = RowToDict(rows[i])
                  /\ Fns(r)' = <<"get_from_db">>
                  /\ rows' = rows
          /\ pc[r] = "done" => (pc'[r] = "done" /\ calls'[r] = calls[r])
          /\ \A i \in 1..Len(rows) :
               (Tainted(rows[i]) /\ rows'[i] # rows[i]) =>
                 \E w \in Requests :
                   /\ pc[w] = "store" /\ pc'[w] = "respond"
                   /\ local[w].task = rows[i].task
                   /\ CheckedBeforeFirstWrite(w)]_vars
  /\ [](OneAtATime =>
          \A r \in Requests :
            Hit(r) => response[r] =
                        formatted_response(local[writes[FirstWrite(local[r].task)]]))

\* C18 happens: a run made without a credential stored six failure strings;
\* the server was started again with the credential set, and a later request
\* for the task was answered from the cache with the failure strings.
C18_Witness ==
  \E r \in Requests :
    /\ Hit(r) /\ seen[r].token = "hf_token"
    /\ \E i \in 1..Len(rows) :
         /\ rows[i].task = local[r].task
         /\ \A f \in LlmFields : rows[i][ColumnOf[f]] = <<FailPrefix, NoTokenReason>>
    /\ \A f \in LlmFields : response[r][KeyOf[f]] = <<(<<FailPrefix, NoTokenReason>>)>>

\* C19: a request that missed the cache answers with the outputs of its own
\* run, whatever the table holds when it answers: the step that responds
\* returns 200 with the formatted locals of the handler, and so does every
\* answer to a request that was not served from the cache.
C19_MissRespondsWithOwnRun ==
  /\ [][\A r \in Requests :
          (pc[r] = "respond" /\ pc'[r] # pc[r]) =>
            /\ status'[r] = 200
            /\ response'[r] = formatted_response(local[r])]_vars
  /\ [](\A r \in Requests :
          (status[r] = 200 /\ ~Hit(r)) =>
            /\ Fns(r) = FullRun
            /\ response[r] = formatted_response(local[r]))

\* C19 happens: of two overlapping requests for one task the first writer
\* was answered with its own outputs, which are not what the table holds
\* for the task now, after the second writer: a request served from the
\* cache from here on gets a different body.
C19_Witness ==
  /\ Len(writes) = 2 /\ Len(rows) = 1
  /\ local[writes[1]].task = local[writes[2]].task
  /\ status[writes[1]] = 200
  /\ response[writes[1]] = formatted_response(local[writes[1]])
  /\ get_from_db(rows, local[writes[1]].task).found
  /\ response[writes[1]] # get_from_db(rows, local[writes[1]].task).value

====
